---- MODULE Spec2Model ----
(***************************************************************************)
(* MaskFormerConfig (configuration_maskformer.py): the constructor, the    *)
(* factory from_backbone_and_detr_configs and the serializer to_dict.      *)
(*                                                                         *)
(* A Python dict is a function from key strings to values.  Lists are the  *)
(* only mutable values that dicts here hold by reference: they live in     *)
(* `heap`, and a dict entry under a key of ListKeys holds a heap address.  *)
(* A configuration object is a record [class, dict]: `class` carries the   *)
(* class attribute model_type, `dict` is the instance's __dict__.          *)
(* Floats are written as strings ("0.1"); no arithmetic is done on them.   *)
(***************************************************************************)
EXTENDS Integers, Sequences, FiniteSets, TLC

VARIABLES heap, backbone_arg, config, result, output, prebuilt, call,
          last_op, first_output, edits, mods

vars == <<heap, backbone_arg, config, result, output, prebuilt, call,
          last_op, first_output, edits, mods>>

\* ------------------------------------------------------------- bounds
\* Heap addresses available to live lists.
MaxAddr == 8
\* Ad hoc attribute edits the caller applies in one run.
MaxEdits == 1
\* Modifications a caller applies to one returned mapping.
MaxMods == 1

Addr == 1..MaxAddr

\* ------------------------------------------------------- dict helpers
EmptyDict == [k \in {} |-> 0]

Without(m, k) == [x \in DOMAIN m \ {k} |-> m[x]]

Update(m, n) ==
    [x \in DOMAIN m \cup DOMAIN n |-> IF x \in DOMAIN n THEN n[x] ELSE m[x]]

Restrict(m, ks) == [x \in DOMAIN m \cap ks |-> m[x]]

None == [given |-> FALSE]
Some(d) == [given |-> TRUE, dict |-> d]

NoConfig == [class |-> "NoneType"]

\* ------------------------------------------------------------- lists
\* Keys whose values are lists (held by reference).
ListKeys == {"depths", "num_heads"}
ListKeyOrder == <<"depths", "num_heads">>

FreeAddr(h) ==
    CHOOSE a \in Addr \ DOMAIN h : \A b \in Addr \ DOMAIN h : a <= b

\* The value of a flat dict: every list reference replaced by the list.
Resolve(m, h) ==
    [k \in DOMAIN m |-> IF k \in ListKeys THEN h[m[k]] ELSE m[k]]

\* One step of building a dict from a literal: the list written under key k
\* is a new list object.
AllocList(s, k) ==
    IF k \in DOMAIN s.dict
    THEN LET a == FreeAddr(s.heap)
         IN [dict |-> [s.dict EXCEPT ![k] = a],
             heap |-> [x \in DOMAIN s.heap \cup {a} |->
                          IF x = a THEN s.dict[k] ELSE s.heap[x]]]
    ELSE s

\* A dict literal whose list entries are written out: each is a new list.
FromLiteral(lit, h) ==
    AllocList(AllocList([dict |-> lit, heap |-> h], ListKeyOrder[1]),
              ListKeyOrder[2])

\* One step of copy.deepcopy on a flat dict: the list under key k is copied.
CopyList(s, k) ==
    IF k \in DOMAIN s.dict
    THEN LET a == FreeAddr(s.heap)
         IN [dict |-> [s.dict EXCEPT ![k] = a],
             heap |-> [x \in DOMAIN s.heap \cup {a} |->
                          IF x = a THEN s.heap[s.dict[k]] ELSE s.heap[x]]]
    ELSE s

DeepCopy(m, h) ==
    CopyList(CopyList([dict |-> m, heap |-> h], ListKeyOrder[1]),
             ListKeyOrder[2])

\* ------------------------------------ collaborators (base and sub-configs)
\* SwinConfig.__init__ parameter defaults.
SwinDefaults ==
    [image_size |-> 224, patch_size |-> 4, in_channels |-> 3, embed_dim |-> 96,
     depths |-> <<2, 2, 6, 2>>, num_heads |-> <<3, 6, 12, 24>>,
     window_size |-> 7, drop_path_rate |-> "0.1"]

\* DetrConfig.__init__ parameter defaults (those MaskFormerConfig reads).
DetrDefaults == [encoder_attention_heads |-> 8, num_hidden_layers |-> 6]

\* SwinConfig(**kw): every parameter not given takes its default (a default
\* list is a new list); a list that is given is stored as the same object.
SwinConfig(h, kw) ==
    LET d == FromLiteral(Restrict(SwinDefaults, DOMAIN SwinDefaults \ DOMAIN kw), h)
    IN  [obj |-> [class |-> "swin", dict |-> Update(d.dict, kw)], heap |-> d.heap]

\* DetrConfig(**kw).
DetrConfig(kw) == [class |-> "detr", dict |-> Update(DetrDefaults, kw)]

\* AutoConfig.for_model(model_type, **kw): the configuration class registered
\* under model_type, instantiated with kw.
AutoConfig_for_model(h, model_type, kw) ==
    IF model_type = "swin"
    THEN SwinConfig(h, kw)
    ELSE [obj |-> [class |-> model_type, dict |-> kw], heap |-> h]

\* PretrainedConfig.__init__(num_labels=..., **kwargs) on an instance whose
\* __dict__ is d so far: num_labels is stored, then every remaining keyword
\* argument is set as an attribute.
PretrainedConfig_init(d, num_labels, kwargs) ==
    Update(Update(d, [num_labels |-> num_labels]), kwargs)

\* PretrainedConfig.to_dict of a sub-config: a deep copy of its __dict__ plus
\* the class's model_type.
PretrainedConfig_to_dict(obj, h) ==
    LET c == DeepCopy(obj.dict, h)
    IN  [dict |-> Update(c.dict, [model_type |-> obj.class]), heap |-> c.heap]

\* ------------------------------------------------------ MaskFormerConfig
model_type == "maskformer"
backbones_supported == <<"swin">>

RECURSIVE Join(_, _)
Join(sep, s) ==
    IF Len(s) = 0 THEN ""
    ELSE IF Len(s) = 1 THEN s[1]
    ELSE s[1] \o sep \o Join(sep, Tail(s))

InList(x, s) == \E i \in 1..Len(s) : s[i] = x

\* A validation that lets every backbone type through.
Supported_any(backbone_model_type) == TRUE

\* Line 125: backbone_model_type in self.backbones_supported.
Supported(backbone_model_type) == InList(backbone_model_type, backbones_supported)

\* Defaults with mask_weight copied from the line above it.
ScalarDefaults_slip ==
    [fpn_feature_size |-> 256, mask_feature_size |-> 256,
     no_object_weight |-> "0.1", use_auxilary_loss |-> FALSE,
     init_std |-> "0.02", init_xavier_std |-> "1.0", dice_weight |-> "1.0",
     cross_entropy_weight |-> "1.0", mask_weight |-> "1.0",
     num_labels |-> 150]

\* The defaults of the scalar parameters of __init__.
ScalarDefaults ==
    [fpn_feature_size |-> 256, mask_feature_size |-> 256,
     no_object_weight |-> "0.1", use_auxilary_loss |-> FALSE,
     init_std |-> "0.02", init_xavier_std |-> "1.0", dice_weight |-> "1.0",
     cross_entropy_weight |-> "1.0", mask_weight |-> "20.0",
     num_labels |-> 150]

ScalarParams == DOMAIN ScalarDefaults

\* The keyword arguments of the SwinConfig(...) call that builds the fallback
\* backbone.
FallbackBackboneArgs ==
    [image_size |-> 384, in_channels |-> 3, patch_size |-> 4, embed_dim |-> 128,
     depths |-> <<2, 2, 18, 2>>, num_heads |-> <<4, 8, 16, 32>>,
     window_size |-> 12, drop_path_rate |-> "0.3"]

Raise(kind, msg, h, bc) ==
    [raised |-> kind, message |-> msg, self |-> NoConfig, heap |-> h,
     backbone_config |-> bc]

\* Line 131: the decoder sub-config.
ResolveDetr(detr_config) ==
    IF detr_config.given THEN DetrConfig(detr_config.dict)
    ELSE DetrConfig(EmptyDict)

\* Lines 133-146: the attributes assigned from the arguments.
AssignedAttributes(p, bb, detr) ==
    [backbone_config |-> bb,
     detr_config |-> detr,
     fpn_feature_size |-> p.fpn_feature_size,
     mask_feature_size |-> p.mask_feature_size,
     init_std |-> p.init_std,
     init_xavier_std |-> p.init_xavier_std,
     cross_entropy_weight |-> p.cross_entropy_weight,
     dice_weight |-> p.dice_weight,
     mask_weight |-> p.mask_weight,
     use_auxilary_loss |-> p.use_auxilary_loss,
     no_object_weight |-> p.no_object_weight]

Constructed(d, h, p, bc, kwargs) ==
    [raised |-> "none", message |-> "",
     self |-> [class |-> model_type,
               dict |-> PretrainedConfig_init(d, p.num_labels, kwargs)],
     heap |-> h, backbone_config |-> bc]

\* The derived fields read from the decoder's other head count and layer count.
InitAttributes_decoder(h, p, bb, bc, detr_config, kwargs) ==
    LET detr == ResolveDetr(detr_config)
    IN  Constructed(Update(AssignedAttributes(p, bb, detr),
                           [num_attention_heads |-> detr.dict.num_hidden_layers,
                            num_hidden_layers |-> detr.dict.encoder_attention_heads]),
                    h, p, bc, kwargs)

\* Lines 131-150: everything after the backbone is resolved, the derived
\* fields of lines 148-149 and super().__init__ included.
InitAttributes(h, p, bb, bc, detr_config, kwargs) ==
    LET detr == ResolveDetr(detr_config)
    IN  Constructed(Update(AssignedAttributes(p, bb, detr),
                           [num_attention_heads |-> detr.dict.encoder_attention_heads,
                            num_hidden_layers |-> detr.dict.num_hidden_layers]),
                    h, p, bc, kwargs)

\* MaskFormerConfig.__init__.  args: the scalar parameters passed explicitly;
\* backbone_config, detr_config: None or Some(dict); kwargs: **kwargs.
\* The result carries the exception raised ("none" if none), the new object,
\* the heap, and the caller's backbone_config dict as the call leaves it.
MaskFormerConfig_init(h, args, backbone_config, detr_config, kwargs) ==
    LET p == Update(ScalarDefaults, args)
    IN  IF ~backbone_config.given
        THEN LET lit == FromLiteral(FallbackBackboneArgs, h)
                 bb == SwinConfig(lit.heap, lit.dict)
             IN  InitAttributes(bb.heap, p, bb.obj, backbone_config,
                                detr_config, kwargs)
        ELSE IF "model_type" \notin DOMAIN backbone_config.dict
        THEN Raise("KeyError", "model_type", h, backbone_config)
        ELSE LET backbone_model_type == backbone_config.dict["model_type"]
                 popped == Some(Without(backbone_config.dict, "model_type"))
             IN  IF ~Supported(backbone_model_type)
                 THEN Raise("ValueError",
                            "Backbone " \o backbone_model_type
                              \o " not supported, please use one of "
                              \o Join(",", backbones_supported),
                            h, popped)
                 ELSE LET bb == AutoConfig_for_model(h, backbone_model_type,
                                                     popped.dict)
                      IN  InitAttributes(bb.heap, p, bb.obj, popped,
                                         detr_config, kwargs)

\* A factory that forwards the backbone only.
from_backbone_only(h, b, d, kwargs) ==
    LET bd == PretrainedConfig_to_dict(b, h)
    IN  MaskFormerConfig_init(bd.heap, Restrict(kwargs, ScalarParams),
                              Some(bd.dict), None,
                              Restrict(kwargs, DOMAIN kwargs \ ScalarParams))

\* MaskFormerConfig.from_backbone_and_detr_configs(b, d, **kwargs).
from_backbone_and_detr_configs(h, b, d, kwargs) ==
    LET bd == PretrainedConfig_to_dict(b, h)
        dd == PretrainedConfig_to_dict(d, bd.heap)
    IN  MaskFormerConfig_init(dd.heap, Restrict(kwargs, ScalarParams),
                              Some(bd.dict), Some(dd.dict),
                              Restrict(kwargs, DOMAIN kwargs \ ScalarParams))

\* A serializer that stops at the copy of __dict__ made without recursion:
\* the nested entries are the sub-configs' own __dict__ contents.
to_dict_shallow(self, h) ==
    [dict |-> Update(self.dict,
                     [backbone_config |-> self.dict.backbone_config.dict,
                      detr_config |-> self.dict.detr_config.dict,
                      model_type |-> model_type]),
     heap |-> h]

\* A serializer that forgets the type tag.
to_dict_untagged(self, h) ==
    LET bd == PretrainedConfig_to_dict(self.dict.backbone_config, h)
        dd == PretrainedConfig_to_dict(self.dict.detr_config, bd.heap)
    IN  [dict |-> Update(self.dict,
                         [backbone_config |-> bd.dict,
                          detr_config |-> dd.dict]),
         heap |-> dd.heap]

\* MaskFormerConfig.to_dict.  The deep copy of __dict__ copies the scalars by
\* value; its copies of the two sub-config objects are overwritten.
to_dict(self, h) ==
    LET bd == PretrainedConfig_to_dict(self.dict.backbone_config, h)
        dd == PretrainedConfig_to_dict(self.dict.detr_config, bd.heap)
    IN  [dict |-> Update(self.dict,
                         [backbone_config |-> bd.dict,
                          detr_config |-> dd.dict,
                          model_type |-> model_type]),
         heap |-> dd.heap]

\* ---------------------------------------------------------- observations
\* The value of a configuration: its __dict__ with the backbone's lists read
\* through the heap.
ConfigValue(c, h) ==
    IF c.class = model_type
    THEN [c EXCEPT !.dict.backbone_config.dict = Resolve(@, h)]
    ELSE c

\* The value of a mapping returned by to_dict.
MappingValue(m, h) == [m EXCEPT !.backbone_config = Resolve(@, h)]

OptValue(o, h) == IF o.given THEN Some(Resolve(o.dict, h)) ELSE None

OutValue(o, h) == IF o.given THEN Some(MappingValue(o.dict, h)) ELSE None

ObjValue(o, h) == [o EXCEPT !.dict = Resolve(@, h)]

\* What c.to_dict() would return, as a value.
Serialized(c, h) ==
    LET t == to_dict(c, h) IN MappingValue(t.dict, t.heap)

\* ------------------------------------------------------------ live heap
ListsOf(m) == {m[k] : k \in DOMAIN m \cap ListKeys}

Live(arg, c, out, pre) ==
    (IF arg.given THEN ListsOf(arg.dict) ELSE {})
    \cup (IF c.class = model_type THEN ListsOf(c.dict.backbone_config.dict) ELSE {})
    \cup (IF out.given THEN ListsOf(out.dict.backbone_config) ELSE {})
    \cup (IF pre.given THEN ListsOf(pre.b.dict) ELSE {})

\* Lists no longer referenced are reclaimed.
Collect(h, arg, c, out, pre) == Restrict(h, Live(arg, c, out, pre))

NoHeap == [a \in {} |-> <<>>]

\* ----------------------------------------------------------------- inputs
AltValue ==
    [fpn_feature_size |-> 128, mask_feature_size |-> 512,
     no_object_weight |-> "0.5", use_auxilary_loss |-> TRUE,
     init_std |-> "0.5", init_xavier_std |-> "0.5", dice_weight |-> "0.5",
     cross_entropy_weight |-> "0.5", mask_weight |-> "0.5",
     num_labels |-> 10]

\* The scalar parameters a call passes explicitly: none, one, a pair, all.
ArgSets ==
    {{}, {"mask_feature_size"}, {"use_auxilary_loss"}, {"num_labels"},
     {"no_object_weight", "init_std"}, ScalarParams}

ArgSamples == {Restrict(AltValue, S) : S \in ArgSets}

BackboneLiterals ==
    {[model_type |-> "swin"],
     [model_type |-> "swin", embed_dim |-> 192, depths |-> <<2, 2, 6, 2>>],
     [model_type |-> "vit"],
     [model_type |-> "bert", embed_dim |-> 192],
     [embed_dim |-> 192],
     EmptyDict}

BackboneSamples == {None} \cup {Some(l) : l \in BackboneLiterals}

DetrSamples ==
    {None, Some([encoder_attention_heads |-> 4]),
     Some([model_type |-> "bert", num_hidden_layers |-> 3])}

KwargSamples ==
    {EmptyDict, [num_attention_heads |-> 4],
     [num_attention_heads |-> 8, num_hidden_layers |-> 6]}

ExtraSamples == {EmptyDict, [num_attention_heads |-> 4]}

FactoryKwargs == KwargSamples \cup {[mask_feature_size |-> 512]}

PrebuiltBackboneKwargs ==
    {EmptyDict, [embed_dim |-> 192, depths |-> <<2, 2, 18, 2>>]}

PrebuiltDetr == {DetrConfig(EmptyDict), DetrConfig([encoder_attention_heads |-> 4])}

OtherBackbone == [class |-> "vit", dict |-> [hidden_size |-> 768]]

\* ------------------------------------------------------------------ state
\* `call` records the arguments of the constructor call just made; it is
\* NoCall when the last operation was not a constructor call.
NoCall == [op |-> "none"]

Init ==
    /\ heap = NoHeap
    /\ backbone_arg = None
    /\ config = NoConfig
    /\ result = [raised |-> "none", message |-> ""]
    /\ output = None
    /\ prebuilt = None
    /\ call = NoCall
    /\ last_op = "init"
    /\ first_output = None
    /\ edits = 0
    /\ mods = 0

\* The caller's bookkeeping after a constructor call returned r.
Returned(r, arg, out, pre) ==
    /\ config' = r.self
    /\ result' = [raised |-> r.raised, message |-> r.message]
    /\ backbone_arg' = arg
    /\ output' = out
    /\ prebuilt' = pre
    /\ heap' = Collect(r.heap, arg, r.self, out, pre)
    /\ first_output' = None
    /\ mods' = 0
    /\ UNCHANGED edits

\* c = MaskFormerConfig(backbone_config=m, detr_config=dc, **args, **kwargs)
\* with m a dict the caller has just written (or None).  The call reads
\* nothing of an earlier state, so it is taken from the initial state only.
Construct(args, bc, dc, kwargs) ==
    LET lit == IF bc.given THEN FromLiteral(bc.dict, NoHeap)
               ELSE [dict |-> EmptyDict, heap |-> NoHeap]
        m == IF bc.given THEN Some(lit.dict) ELSE None
        r == MaskFormerConfig_init(lit.heap, args, m, dc, kwargs)
    IN  /\ last_op = "init"
        /\ Returned(r, r.backbone_config, None, None)
        /\ call' = [op |-> "construct", args |-> args, backbone |-> bc,
                    detr |-> dc, kwargs |-> kwargs]
        /\ last_op' = "construct"

\* A second MaskFormerConfig(...) from the dict the caller passed before, with
\* the other arguments as before.
ConstructAgain ==
    /\ call.op = "construct"
    /\ last_op = "construct"
    /\ backbone_arg.given
    /\ LET r == MaskFormerConfig_init(Collect(heap, backbone_arg, config, None, None),
                                      call.args, backbone_arg, call.detr, call.kwargs)
       IN  /\ Returned(r, r.backbone_config, None, None)
           /\ call' = [op |-> "construct_again", args |-> call.args,
                       backbone |-> OptValue(backbone_arg, heap),
                       detr |-> call.detr, kwargs |-> call.kwargs,
                       first |-> [raised |-> result.raised,
                                  value |-> IF result.raised = "none"
                                            THEN Some(Serialized(config, heap))
                                            ELSE None]]
    /\ last_op' = "construct_again"

\* c = MaskFormerConfig.from_backbone_and_detr_configs(b, d, **kwargs) with b
\* and d configuration objects the caller has just built.
Factory(b0, d, kwargs) ==
    LET b == IF b0.swin THEN LET l == FromLiteral(b0.kw, NoHeap)
                             IN  SwinConfig(l.heap, l.dict)
             ELSE [obj |-> OtherBackbone, heap |-> NoHeap]
        r == from_backbone_and_detr_configs(b.heap, b.obj, d, kwargs)
        pre == [given |-> TRUE, b |-> b.obj, d |-> d]
    IN  /\ last_op = "init"
        /\ Returned(r, None, None, pre)
        /\ call' = [op |-> "factory",
                    args |-> Restrict(kwargs, ScalarParams),
                    kwargs |-> Restrict(kwargs, DOMAIN kwargs \ ScalarParams),
                    b |-> ObjValue(b.obj, b.heap), d |-> d,
                    b_dict |-> LET t == PretrainedConfig_to_dict(b.obj, b.heap)
                               IN  Resolve(t.dict, t.heap),
                    d_dict |-> PretrainedConfig_to_dict(d, NoHeap).dict]
        /\ last_op' = "factory"

\* d = c.to_dict().  `pristine`: d is as to_dict returned it; `own`: d was
\* returned by the to_dict of the configuration the caller holds now.
ToDict ==
    /\ config.class = model_type
    /\ LET t == to_dict(config, Collect(heap, backbone_arg, config, None, prebuilt))
           out == [given |-> TRUE, dict |-> t.dict, pristine |-> TRUE, own |-> TRUE]
       IN  /\ output' = out
           /\ heap' = Collect(t.heap, backbone_arg, config, out, prebuilt)
           /\ first_output' = IF first_output.given THEN first_output
                               ELSE Some(MappingValue(t.dict, t.heap))
    /\ mods' = 0
    /\ last_op' = "to_dict"
    /\ call' = NoCall
    /\ UNCHANGED <<backbone_arg, config, result, prebuilt, edits>>

NamedParams == ScalarParams \cup {"backbone_config", "detr_config"}

\* c2 = MaskFormerConfig(**{**d, **extra}) with d a mapping to_dict returned.
Reconstruct(extra) ==
    /\ output.given
    /\ mods = 0
    /\ LET d == Update(output.dict, extra)
           r == MaskFormerConfig_init(Collect(heap, None, NoConfig, output, None),
                                      Restrict(d, ScalarParams),
                                      Some(d.backbone_config), Some(d.detr_config),
                                      Restrict(d, DOMAIN d \ NamedParams))
           out == [given |-> TRUE,
                   dict |-> [output.dict EXCEPT !.backbone_config = r.backbone_config.dict],
                   pristine |-> FALSE, own |-> FALSE]
       IN  /\ Returned(r, None, out, None)
           /\ call' = [op |-> "reconstruct", extra |-> extra,
                       kwargs |-> Restrict(d, DOMAIN d \ NamedParams),
                       pristine |-> output.pristine,
                       d |-> MappingValue(output.dict, heap)]
    /\ last_op' = "reconstruct"

EditKinds == {"scalar", "detr", "list"}

\* An ad hoc attribute edit of the configuration the caller holds.
EditConfig(kind) ==
    /\ config.class = model_type
    /\ edits < MaxEdits
    /\ edits' = edits + 1
    /\ CASE kind = "scalar" ->
              /\ config' = [config EXCEPT !.dict.mask_feature_size = 64]
              /\ heap' = heap
         [] kind = "detr" ->
              /\ config' = [config EXCEPT
                               !.dict.detr_config.dict.encoder_attention_heads = 2]
              /\ heap' = heap
         [] kind = "list" ->
              /\ "depths" \in DOMAIN config.dict.backbone_config.dict
              /\ config' = config
              /\ heap' = [heap EXCEPT
                             ![config.dict.backbone_config.dict.depths] = <<9>> \o Tail(@)]
    /\ first_output' = None
    /\ last_op' = "edit"
    /\ call' = NoCall
    /\ UNCHANGED <<backbone_arg, result, output, prebuilt, mods>>

ModKinds == {"scalar", "list"}

\* The caller modifies the mapping to_dict returned.
ModifyOutput(kind) ==
    /\ output.given
    /\ mods < MaxMods
    /\ mods' = mods + 1
    /\ CASE kind = "scalar" ->
              /\ output' = [output EXCEPT !.dict.mask_feature_size = 32,
                                           !.pristine = FALSE]
              /\ heap' = heap
         [] kind = "list" ->
              /\ "depths" \in DOMAIN output.dict.backbone_config
              /\ output' = [output EXCEPT !.pristine = FALSE]
              /\ heap' = [heap EXCEPT
                             ![output.dict.backbone_config.depths] = <<7>> \o Tail(@)]
    /\ last_op' = "modify_output"
    /\ call' = NoCall
    /\ UNCHANGED <<backbone_arg, config, result, prebuilt, first_output, edits>>

Next ==
    \/ \E args \in ArgSamples, bc \in BackboneSamples, dc \in DetrSamples,
          kwargs \in KwargSamples : Construct(args, bc, dc, kwargs)
    \/ ConstructAgain
    \/ \E b0 \in {[swin |-> TRUE, kw |-> k] : k \in PrebuiltBackboneKwargs}
                  \cup {[swin |-> FALSE, kw |-> EmptyDict]},
          d \in PrebuiltDetr, kwargs \in FactoryKwargs : Factory(b0, d, kwargs)
    \/ ToDict
    \/ \E extra \in ExtraSamples : Reconstruct(extra)
    \/ \E kind \in EditKinds : EditConfig(kind)
    \/ \E kind \in ModKinds : ModifyOutput(kind)

Spec == Init /\ [][Next]_vars

\* ------------------------------------------------------------ properties
IsConfig(c) == c.class = model_type

ConstructorReturned == call.op # "none"

Succeeded == ConstructorReturned /\ result.raised = "none"

\* The backbone_config mapping of the call names a type outside {"swin"}.
DeclaresUnsupported(bc) ==
    /\ bc.given
    /\ "model_type" \in DOMAIN bc.dict
    /\ bc.dict.model_type \notin {"swin"}

\* C1: a backbone_config mapping whose model_type is not "swin" makes the
\* constructor raise ValueError, with a message naming the rejected type and
\* the supported types, and no configuration is produced; the other arguments
\* do not matter.
C1_UnsupportedBackboneRejected ==
    (call.op = "construct" /\ DeclaresUnsupported(call.backbone))
        => /\ result.raised = "ValueError"
           /\ result.message = "Backbone " \o call.backbone.dict.model_type
                                 \o " not supported, please use one of swin"
           /\ config = NoConfig

C1_Witness ==
    /\ call.op = "construct"
    /\ DeclaresUnsupported(call.backbone)
    /\ call.detr.given
    /\ call.kwargs # EmptyDict
    /\ call.args # EmptyDict
    /\ result.raised = "ValueError"

\* C2: a mapping d that to_dict returned reconstructs: MaskFormerConfig(**d)
\* succeeds and the new configuration's to_dict() equals d.
C2_RoundTrip ==
    (call.op = "reconstruct" /\ call.pristine /\ call.extra = EmptyDict)
        => /\ result.raised = "none"
           /\ Serialized(config, heap) = MappingValue(output.dict, heap)

\* The round trip measured against the value d had when to_dict returned it.
RoundTripOfEarlierValue ==
    (call.op = "reconstruct" /\ call.pristine /\ call.extra = EmptyDict)
        => /\ result.raised = "none"
           /\ Serialized(config, heap) = call.d

\* The documented defaults (the Args section of the class docstring).
DocumentedDefaults ==
    [mask_feature_size |-> 256, no_object_weight |-> "0.1",
     use_auxilary_loss |-> FALSE, init_std |-> "0.02",
     init_xavier_std |-> "1.0", dice_weight |-> "1.0",
     cross_entropy_weight |-> "1.0", mask_weight |-> "20.0",
     num_labels |-> 150]

DocumentedBackbone ==
    [image_size |-> 384, in_channels |-> 3, patch_size |-> 4, embed_dim |-> 128,
     depths |-> <<2, 2, 18, 2>>, num_heads |-> <<4, 8, 16, 32>>,
     window_size |-> 12, drop_path_rate |-> "0.3"]

UnsetTakeDefaults ==
    /\ \A k \in DOMAIN DocumentedDefaults \ DOMAIN call.args :
          config.dict[k] = DocumentedDefaults[k]
    /\ ~call.backbone.given =>
          /\ config.dict.backbone_config.class = "swin"
          /\ Resolve(config.dict.backbone_config.dict, heap) = DocumentedBackbone
    /\ ~call.detr.given => config.dict.detr_config = DetrConfig(EmptyDict)

SubConfigKeys == {"backbone_config", "detr_config"}

\* C4: what to_dict returns holds every scalar field with its current value,
\* the two sub-configs as their own to_dict() mappings, and model_type
\* "maskformer".
C4_ToDictShape ==
    last_op = "to_dict" =>
        LET d == output.dict
            b == PretrainedConfig_to_dict(config.dict.backbone_config, heap)
            t == PretrainedConfig_to_dict(config.dict.detr_config, heap)
        IN  /\ DOMAIN config.dict \subseteq DOMAIN d
            /\ \A k \in DOMAIN config.dict \ (SubConfigKeys \cup {"model_type"}) :
                  d[k] = config.dict[k]
            /\ Resolve(d.backbone_config, heap) = Resolve(b.dict, b.heap)
            /\ d.detr_config = t.dict
            /\ "model_type" \in DOMAIN d
            /\ d.model_type = "maskformer"

C4_Witness ==
    /\ last_op = "to_dict"
    /\ config.dict.mask_feature_size = 64
    /\ output.dict.mask_feature_size = 64
    /\ output.dict.backbone_config.model_type = "swin"

\* C5: only an unsupported backbone type makes construction fail; every other
\* call succeeds and its unset arguments take their defaults.
C5_OnlyUnsupportedFails ==
    (call.op = "construct" /\ ~DeclaresUnsupported(call.backbone))
        => /\ result.raised = "none"
           /\ UnsetTakeDefaults

\* C6: a configuration that a constructor call returned has a backbone of a
\* supported type, whichever way it was constructed.
C6_BackboneSupported ==
    (ConstructorReturned /\ IsConfig(config))
        => config.dict.backbone_config.class \in {"swin"}

C6_Witness ==
    /\ call.op = "factory"
    /\ IsConfig(config)
    /\ config.dict.backbone_config.dict.embed_dim = 192

\* The constructor called on b.to_dict(), d.to_dict() and the factory's
\* keyword arguments.
DirectCall ==
    LET lit == FromLiteral(call.b_dict, NoHeap)
    IN  MaskFormerConfig_init(lit.heap, call.args, Some(lit.dict),
                              Some(call.d_dict), call.kwargs)

\* C7: the factory does what the constructor does on b.to_dict() and
\* d.to_dict(): it fails exactly when b's type is unsupported, the new
\* configuration's sub-configs serialize to b.to_dict() and d.to_dict(), and
\* b and d are as they were.
C7_FactoryIsConstructor ==
    call.op = "factory" =>
        /\ result.raised # "none" <=> call.b.class \notin {"swin"}
        /\ result.raised = DirectCall.raised
        /\ result.message = DirectCall.message
        /\ ConfigValue(config, heap) = ConfigValue(DirectCall.self, DirectCall.heap)
        /\ result.raised = "none" =>
              LET t == Serialized(config, heap)
              IN  /\ t.backbone_config = call.b_dict
                  /\ t.detr_config = call.d_dict
        /\ ObjValue(prebuilt.b, heap) = call.b
        /\ prebuilt.d = call.d

C7_Witness ==
    /\ call.op = "factory"
    /\ result.raised = "none"
    /\ call.d.dict.encoder_attention_heads = 4
    /\ call.b.dict.embed_dim = 192
    /\ config.dict.detr_config.dict.encoder_attention_heads = 4

\* C8: a constructor call leaves the caller's backbone_config mapping as it
\* was, so a second call with the same mapping succeeds when the first did
\* and gives a configuration with an equal to_dict().
C8_MappingUnchanged ==
    /\ (call.op = "construct" /\ call.backbone.given)
          => OptValue(backbone_arg, heap) = call.backbone
    /\ (call.op = "construct_again" /\ call.first.raised = "none")
          => /\ result.raised = "none"
             /\ Some(Serialized(config, heap)) = call.first.value

\* C9: to_dict changes nothing of the configuration, repeats its result while
\* the configuration is not edited, and returns a mapping that shares nothing
\* with the configuration: modifying the mapping changes neither the
\* configuration nor what to_dict returns next.
C9_ToDictPure ==
    [][ /\ last_op' = "to_dict" =>
              /\ ConfigValue(config', heap') = ConfigValue(config, heap)
              /\ first_output.given => OutValue(output', heap') = first_output
        /\ (last_op' = "modify_output" /\ output.own /\ IsConfig(config)) =>
              /\ ConfigValue(config', heap') = ConfigValue(config, heap)
              /\ Serialized(config', heap') = Serialized(config, heap)
      ]_vars

C9_Witness ==
    /\ last_op = "modify_output"
    /\ output.own
    /\ IsConfig(config)
    /\ heap[output.dict.backbone_config.depths][1] = 7
    /\ heap[config.dict.backbone_config.dict.depths][1] # 7
    /\ first_output.given

\* C10 as stated: after every successful construction the derived fields
\* equal the decoder sub-config's.
C10_DerivedAgree ==
    Succeeded =>
        /\ config.dict.num_attention_heads
             = config.dict.detr_config.dict.encoder_attention_heads
        /\ config.dict.num_hidden_layers
             = config.dict.detr_config.dict.num_hidden_layers

\* C10, amended: after every successful construction each derived field
\* equals the keyword argument of its name when the call carries one, and the
\* decoder sub-config's value otherwise.
C10_DerivedUnlessKeyword ==
    Succeeded =>
        /\ config.dict.num_attention_heads
             = IF "num_attention_heads" \in DOMAIN call.kwargs
               THEN call.kwargs.num_attention_heads
               ELSE config.dict.detr_config.dict.encoder_attention_heads
        /\ config.dict.num_hidden_layers
             = IF "num_hidden_layers" \in DOMAIN call.kwargs
               THEN call.kwargs.num_hidden_layers
               ELSE config.dict.detr_config.dict.num_hidden_layers

C10_Witness ==
    /\ call.op = "construct"
    /\ result.raised = "none"
    /\ call.detr.given
    /\ call.kwargs = EmptyDict
    /\ config.dict.detr_config.dict.encoder_attention_heads = 4
    /\ config.dict.num_attention_heads = 4

====
